---- MODULE Spec2Model ----
(***************************************************************************)
(* Model of src/main.py: FastMovieScraper, the schedule-to-calendar        *)
(* pipeline (scrape_movies, get_movie_details under the semaphore,         *)
(* _generate_movie_events, _add_events_to_calendar, save_calendar).        *)
(***************************************************************************)
EXTENDS Integers, Sequences, FiniteSets, TLC

VARIABLES
    pc,              \* position of main(): "scrape", "fetching", "assemble", "aggregate", "save", "done"
    schedule,        \* the schedule page served by the site
    response,        \* status of the schedule request: "pending", "ok", "error"
    max_concurrent,  \* constructor argument of FastMovieScraper
    semaphore,       \* value of self.semaphore
    dates,           \* scrape_movies: dates
    movies,          \* scrape_movies: movies (the tbody rows)
    tasks,           \* the get_movie_details coroutines handed to asyncio.gather
    movie_details,   \* scrape_movies: movie_details
    events,          \* scrape_movies: events (one entry per process_movie)
    cal,             \* scrape_movies: cal
    returned,        \* main: cal, the value scrape_movies returned
    saved            \* the calendar written by save_calendar

vars == <<pc, schedule, response, max_concurrent, semaphore, dates, movies,
          tasks, movie_details, events, cal, returned, saved>>

-----------------------------------------------------------------------------
(* Bounds of the checked instances. *)

\* rows of the schedule table, one-column schedules (Spec)
MaxRows == 3
\* header dates (after the row-label header), one-row schedules (SpecGrid)
MaxDates == 2
\* screening cells (td) of the row, one-row schedules (SpecGrid)
MaxCells == 2
\* time anchors per screening cell, one-row schedules (SpecGrid)
MaxScreenings == 2
\* largest max_concurrent tried
MaxConcurrent == 2

-----------------------------------------------------------------------------
(* Values. *)

\* Python's None
None == <<>>
\* Python's {}
EmptyDict == <<>>
\* an exception escaping _create_movie_event
Raised == [exception |-> "AttributeError"]

DefaultDuration == 120

Min(a, b) == IF a <= b THEN a ELSE b

SeqsUpTo(S, n) == UNION {[1..k -> S] : k \in 0..n}

RECURSIVE DigitsToInt(_)
\* int() of a decimal digit string
DigitsToInt(ds) ==
    IF ds = <<>> THEN 0
    ELSE 10 * DigitsToInt(SubSeq(ds, 1, Len(ds) - 1)) + ds[Len(ds)]

RECURSIVE Flatten(_)
Flatten(ss) == IF ss = <<>> THEN <<>> ELSE Head(ss) \o Flatten(Tail(ss))

-----------------------------------------------------------------------------
(* datetime: records month/day/hour/minute of the current year. *)

DaysBefore(month) ==
    <<0, 31, 59, 90, 120, 151, 181, 212, 243, 273, 304, 334, 365>>[month]

ToMinutes(dt) ==
    ((DaysBefore(dt.month) + dt.day - 1) * 24 + dt.hour) * 60 + dt.minute

FromMinutes(n) ==
    LET d == n \div (24 * 60)
        m == CHOOSE k \in 1..12 : DaysBefore(k) <= d /\ d < DaysBefore(k + 1)
    IN  [month |-> m, day |-> d - DaysBefore(m) + 1,
         hour |-> (n % (24 * 60)) \div 60, minute |-> n % 60]

\* datetime + timedelta(minutes=n)
AddMinutes(dt, n) == FromMinutes(ToMinutes(dt) + n)

\* datetime.replace(hour=, minute=)
ReplaceTime(dt, h, m) == [dt EXCEPT !.hour = h, !.minute = m]

-----------------------------------------------------------------------------
(* The schedule page. *)

\* text of the j-th time anchor of a cell, "HH:MM" as its two digit strings
ShowTimes ==
    << [hh |-> <<1, 8>>, mm |-> <<0, 0>>],
       [hh |-> <<2, 0>>, mm |-> <<3, 0>>],
       [hh |-> <<2, 2>>, mm |-> <<4, 5>>] >>

ShowTime(j) == ShowTimes[((j - 1) % Len(ShowTimes)) + 1]

\* the first header cell, which labels the rows
LabelHeader == [matched |-> FALSE]

\* the header cell of date column col: its text either carries DD.MM.
\* (consecutive days, one per column) or does not match
HeaderCell(col, matches) ==
    IF matches THEN [matched |-> TRUE, dd |-> 14 + col, mm |-> 3]
    ELSE [matched |-> FALSE]

\* the time anchor j of screening cell col of row id
TimeLink(id, col, j) ==
    [span |-> ShowTime(j), href |-> [kind |-> "book", row |-> id, col |-> col, idx |-> j]]

\* a tbody row: the row-label cell (th) holds the title anchor when there is
\* one, the td cells hold the time anchors
MakeRow(id, shape) ==
    [id     |-> id,
     anchor |-> IF shape.title
                THEN [text |-> [kind |-> "film", row |-> id],
                      href |-> [kind |-> "film", row |-> id]]
                ELSE None,
     cells  |-> [c \in 1..Len(shape.cells) |->
                    [j \in 1..shape.cells[c] |-> TimeLink(id, c, j)]]]

\* the schedule pages: no table at all, or a table with one of the header
\* rows (which date headers match) and up to maxRows rows of the shapes
Schedules(headerRows, shapes, maxRows) ==
    { [table   |-> TRUE,
       headers |-> <<LabelHeader>> \o [c \in 1..Len(hs) |-> HeaderCell(c, hs[c])],
       rows    |-> [k \in 1..Len(rs) |-> MakeRow(k, rs[k])]] :
        hs \in headerRows, rs \in SeqsUpTo(shapes, maxRows) }
    \cup { [table |-> FALSE, headers |-> <<>>, rows |-> <<>>] }

\* schedules of one date column and up to MaxRows rows; a row has a title
\* anchor or not, and a screening in its cell or not
OneColumnSchedules ==
    Schedules([{1} -> BOOLEAN], [title : BOOLEAN, cells : [{1} -> {0, 1}]], MaxRows)

\* schedules of at most one row, of up to MaxDates header dates, MaxCells
\* cells and MaxScreenings screenings per cell
OneRowSchedules ==
    Schedules(SeqsUpTo(BOOLEAN, MaxDates),
              [title : BOOLEAN, cells : SeqsUpTo(0..MaxScreenings, MaxCells)], 1)

\* a detail page: whether li:nth-child(2) exists, the digits its text
\* carries and whether "Min." follows them
DetailPages ==
    { [node |-> FALSE, digits |-> <<>>, unit |-> FALSE],
      [node |-> TRUE, digits |-> <<9, 0>>, unit |-> FALSE],
      [node |-> TRUE, digits |-> <<0>>, unit |-> TRUE],
      [node |-> TRUE, digits |-> <<9, 0>>, unit |-> TRUE] }

NoPage == <<>>

-----------------------------------------------------------------------------
(* FastMovieScraper. *)

\* row.find("a"): the first anchor of the row in document order
MovieLink(row) ==
    IF row.anchor # None THEN row.anchor
    ELSE IF Flatten(row.cells) # <<>>
         THEN [text |-> Head(Flatten(row.cells)).span,
               href |-> Head(Flatten(row.cells)).href]
         ELSE None

\* _parse_date
ParseDate(header) ==
    IF header.matched
    THEN [month |-> header.mm, day |-> header.dd, hour |-> 0, minute |-> 0]
    ELSE None

\* a slip: the row-label header is parsed as a date as well
ExtractDatesKeepLabel(table) ==
    [c \in 1..Len(table.headers) |-> ParseDate(table.headers[c])]

\* _extract_table_data: dates, from find_all("th")[1:]
ExtractDates(table) ==
    LET ths == SubSeq(table.headers, 2, Len(table.headers))
    IN  [c \in 1..Len(ths) |-> ParseDate(ths[c])]

\* _extract_table_data: movies
ExtractMovies(table) == table.rows

\* a slip: the missing table goes unnoticed
TableFoundAlways(doc) == TRUE

\* soup.find("table", class_="table-text") found a table
TableFound(doc) == doc.table

\* re.search(r"(\d+)\s*Min\.", text) matches
DurationMatch(page) == page.digits # <<>> /\ page.unit

\* a slip: the digits are taken whether or not "Min." follows them
ExtractDetailsIgnoreUnit(page) ==
    [duration    |-> IF page.node /\ page.digits # <<>>
                     THEN DigitsToInt(page.digits)
                     ELSE DefaultDuration,
     description |-> "",
     trailer     |-> "",
     fsk         |-> "",
     room        |-> ""]

\* get_movie_details: the details built from a fetched page
ExtractDetails(page) ==
    [duration    |-> IF page.node
                     THEN IF DurationMatch(page) THEN DigitsToInt(page.digits)
                          ELSE DefaultDuration
                     ELSE DefaultDuration,
     description |-> "",
     trailer     |-> "",
     fsk         |-> "",
     room        |-> ""]

\* get_movie_details: the except branch
FailedDetails == EmptyDict

\* _fetch_movie_details: one coroutine per row that has an anchor
DetailTasks(rows) ==
    LET linked == SelectSeq(rows, LAMBDA r : MovieLink(r) # None)
    IN  [k \in 1..Len(linked) |->
            [url    |-> MovieLink(linked[k]).href,
             title  |-> MovieLink(linked[k]).text,
             pc     |-> "waiting",
             failed |-> FALSE,
             page   |-> NoPage,
             result |-> EmptyDict]]

\* a slip: the fetch does not wait for a permit
CanAcquireAlways(sem) == TRUE

\* async with self.semaphore: a permit is free
CanAcquire(sem) == sem > 0

\* a slip: the join returns with the first resolved fetch
AnyResolved(ts) == ts = <<>> \/ \E k \in 1..Len(ts) : ts[k].pc = "done"

\* asyncio.gather(*movie_details_tasks) returns
AllResolved(ts) == \A k \in 1..Len(ts) : ts[k].pc = "done"

\* asyncio.gather: the results in the order the coroutines were passed
GatherResults(ts) == [k \in 1..Len(ts) |-> ts[k].result]

\* _create_event_description
CreateEventDescription(details, booking_url) ==
    [text    |-> details.description,
     dauer   |-> details.duration,
     fsk     |-> details.fsk,
     saal    |-> details.room,
     trailer |-> details.trailer,
     tickets |-> booking_url]

\* _create_movie_event; date.replace on None raises
CreateMovieEvent(movie_title, date, time_link, details) ==
    IF date = None THEN Raised
    ELSE LET start_time == ReplaceTime(date, DigitsToInt(time_link.span.hh),
                                       DigitsToInt(time_link.span.mm))
         IN  [summary     |-> movie_title,
              dtstart     |-> start_time,
              dtend       |-> AddMinutes(start_time, details.duration),
              location    |-> "Kinowelt am Ammersee",
              description |-> CreateEventDescription(details, time_link.href)]

\* zip(dates, screenings): the index pairs
ZipLen(ds, screenings) == Min(Len(ds), Len(screenings))

\* a slip: only the first time anchor of a cell becomes an event
ProcessMovieFirstLinkOnly(row, details, ds) ==
    IF MovieLink(row) = None \/ details = EmptyDict THEN None
    ELSE Flatten([i \in 1..ZipLen(ds, row.cells) |->
                    [j \in 1..Min(1, Len(row.cells[i])) |->
                        CreateMovieEvent(MovieLink(row).text, ds[i],
                                         row.cells[i][j], details)]])

\* _generate_movie_events.process_movie
ProcessMovie(row, details, ds) ==
    IF MovieLink(row) = None \/ details = EmptyDict THEN None
    ELSE Flatten([i \in 1..ZipLen(ds, row.cells) |->
                    [j \in 1..Len(row.cells[i]) |->
                        CreateMovieEvent(MovieLink(row).text, ds[i],
                                         row.cells[i][j], details)]])

\* _generate_movie_events: zip(movies, movie_details)
MovieEvents(rows, details, ds) ==
    [k \in 1..Min(Len(rows), Len(details)) |-> ProcessMovie(rows[k], details[k], ds)]

Raises(groups) ==
    \E k \in 1..Len(groups) : \E i \in 1..Len(groups[k]) : groups[k][i] = Raised

\* _prepare_calendar
PrepareCalendar ==
    [version |-> "2.0", prodid |-> "-//Kino Diessen Movie Schedule//diessen.de//",
     components |-> <<>>]

\* _add_events_to_calendar
AddEvents(calendar, results) ==
    [calendar EXCEPT !.components = calendar.components \o Flatten(results)]

-----------------------------------------------------------------------------
(* The state machine. *)

TypeOK ==
    /\ pc \in {"scrape", "fetching", "assemble", "aggregate", "save", "done"}
    /\ response \in {"pending", "ok", "error"}
    /\ max_concurrent \in 1..MaxConcurrent
    /\ semaphore \in Int

InitOf(limits, pages) ==
    /\ pc = "scrape"
    /\ schedule \in pages
    /\ response = "pending"
    /\ max_concurrent \in limits
    /\ semaphore = max_concurrent
    /\ dates = <<>>
    /\ movies = <<>>
    /\ tasks = <<>>
    /\ movie_details = <<>>
    /\ events = <<>>
    /\ cal = None
    /\ returned = None
    /\ saved = None

\* scrape_movies: the schedule request raises; the except branch returns None
ScheduleRequestFails ==
    /\ pc = "scrape"
    /\ response' = "error"
    /\ returned' = None
    /\ pc' = "done"
    /\ UNCHANGED <<schedule, max_concurrent, semaphore, dates, movies, tasks,
                   movie_details, events, cal, saved>>

\* scrape_movies: no table; "No movie table found", return None
NoMovieTable ==
    /\ pc = "scrape"
    /\ ~TableFound(schedule)
    /\ response' = "ok"
    /\ cal' = PrepareCalendar
    /\ returned' = None
    /\ pc' = "done"
    /\ UNCHANGED <<schedule, max_concurrent, semaphore, dates, movies, tasks,
                   movie_details, events, saved>>

\* scrape_movies up to the await of _fetch_movie_details
ParseSchedule ==
    /\ pc = "scrape"
    /\ TableFound(schedule)
    /\ response' = "ok"
    /\ cal' = PrepareCalendar
    /\ dates' = ExtractDates(schedule)
    /\ movies' = ExtractMovies(schedule)
    /\ tasks' = DetailTasks(ExtractMovies(schedule))
    /\ pc' = "fetching"
    /\ UNCHANGED <<schedule, max_concurrent, semaphore, movie_details, events,
                   returned, saved>>

\* get_movie_details: enter the semaphore and issue the request
Acquire(k) ==
    /\ pc = "fetching"
    /\ tasks[k].pc = "waiting"
    /\ CanAcquire(semaphore)
    /\ semaphore' = semaphore - 1
    /\ tasks' = [tasks EXCEPT ![k].pc = "inflight"]
    /\ UNCHANGED <<pc, schedule, response, max_concurrent, dates, movies,
                   movie_details, events, cal, returned, saved>>

\* get_movie_details: the page arrives, the details are extracted, the
\* semaphore is released
DetailResponse(k, page) ==
    /\ pc = "fetching"
    /\ tasks[k].pc = "inflight"
    /\ semaphore' = semaphore + 1
    /\ tasks' = [tasks EXCEPT ![k].pc = "done", ![k].page = page,
                              ![k].result = ExtractDetails(page)]
    /\ UNCHANGED <<pc, schedule, response, max_concurrent, dates, movies,
                   movie_details, events, cal, returned, saved>>

\* get_movie_details: the request raises; the except branch returns {}
DetailFetchFails(k) ==
    /\ pc = "fetching"
    /\ tasks[k].pc = "inflight"
    /\ semaphore' = semaphore + 1
    /\ tasks' = [tasks EXCEPT ![k].pc = "done", ![k].failed = TRUE,
                              ![k].result = FailedDetails]
    /\ UNCHANGED <<pc, schedule, response, max_concurrent, dates, movies,
                   movie_details, events, cal, returned, saved>>

\* _fetch_movie_details returns
GatherDetails ==
    /\ pc = "fetching"
    /\ AllResolved(tasks)
    /\ movie_details' = GatherResults(tasks)
    /\ pc' = "assemble"
    /\ UNCHANGED <<schedule, response, max_concurrent, semaphore, dates, movies,
                   tasks, events, cal, returned, saved>>

\* _generate_movie_events; an exception of a process_movie reaches the
\* except branch of scrape_movies, which returns None
GenerateMovieEvents ==
    /\ pc = "assemble"
    /\ LET groups == MovieEvents(movies, movie_details, dates)
       IN  IF Raises(groups)
           THEN /\ returned' = None
                /\ pc' = "done"
                /\ UNCHANGED events
           ELSE /\ events' = groups
                /\ pc' = "aggregate"
                /\ UNCHANGED returned
    /\ UNCHANGED <<schedule, response, max_concurrent, semaphore, dates, movies,
                   tasks, movie_details, cal, saved>>

\* _add_events_to_calendar and the return of scrape_movies
AddEventsToCalendar ==
    /\ pc = "aggregate"
    /\ cal' = AddEvents(cal, events)
    /\ returned' = AddEvents(cal, events)
    /\ pc' = "save"
    /\ UNCHANGED <<schedule, response, max_concurrent, semaphore, dates, movies,
                   tasks, movie_details, events, saved>>

\* main: if cal: save_calendar(cal)
SaveCalendar ==
    /\ pc = "save"
    /\ returned # None
    /\ saved' = returned
    /\ pc' = "done"
    /\ UNCHANGED <<schedule, response, max_concurrent, semaphore, dates, movies,
                   tasks, movie_details, events, cal, returned>>

Next ==
    \/ ScheduleRequestFails
    \/ NoMovieTable
    \/ ParseSchedule
    \/ \E k \in 1..Len(tasks) : Acquire(k)
    \/ \E k \in 1..Len(tasks) : \E page \in DetailPages : DetailResponse(k, page)
    \/ \E k \in 1..Len(tasks) : DetailFetchFails(k)
    \/ GatherDetails
    \/ GenerateMovieEvents
    \/ AddEventsToCalendar
    \/ SaveCalendar

\* many rows under one date column
Init == InitOf(1..MaxConcurrent, OneColumnSchedules)

Spec == Init /\ [][Next]_vars

\* one row under many date columns
InitGrid == InitOf({MaxConcurrent}, OneRowSchedules)

SpecGrid == InitGrid /\ [][Next]_vars

-----------------------------------------------------------------------------
(* Vocabulary of the properties. *)

TaskIds == 1..Len(tasks)

InFlight == Cardinality({k \in TaskIds : tasks[k].pc = "inflight"})

\* _fetch_movie_details has returned
Gathered == pc \in {"assemble", "aggregate", "save"}

\* _generate_movie_events has returned its groups
Assembled == pc \in {"aggregate", "save"} \/ (pc = "done" /\ saved # None)

\* the events of the calendar the run produced
CalendarEvents == IF saved = None THEN <<>> ELSE saved.components

\* the booking references of the calendar's events that belong to row id
TicketsOfRow(id) ==
    LET own == SelectSeq(CalendarEvents, LAMBDA e : e.description.tickets.row = id)
    IN  [i \in 1..Len(own) |-> own[i].description.tickets]

\* the header cells after the row-label header
DateHeaders == SubSeq(schedule.headers, 2, Len(schedule.headers))

\* the time anchors of a row that sit under a header cell
AlignedLinks(row) ==
    Flatten(SubSeq(row.cells, 1, Min(Len(DateHeaders), Len(row.cells))))

\* the booking references of the screenings of a row that sit under a header
\* cell whose text carries a date
DatedTickets(row) ==
    LET dated == SelectSeq(AlignedLinks(row), LAMBDA a : DateHeaders[a.href.col].matched)
    IN  [i \in 1..Len(dated) |-> dated[i].href]

\* the task that fetches the detail page of a row
TaskOf(row) == {t \in TaskIds : MovieLink(row) # None /\ tasks[t].url = MovieLink(row).href}

FailedTasks == {t \in TaskIds : tasks[t].failed}

-----------------------------------------------------------------------------
(* C1 *)

\* C1: once _fetch_movie_details has returned, movie_details has one entry
\* per schedule row, and its k-th entry is the result fetched for the k-th
\* row's detail page.
C1_DetailsAlignedWithRows ==
    Gathered =>
        /\ Len(movie_details) = Len(movies)
        /\ \A k \in 1..Len(movies) :
              \E t \in TaskOf(movies[k]) : t = k /\ movie_details[k] = tasks[t].result

-----------------------------------------------------------------------------
(* C2 *)

\* C2: the number of detail fetches inside the semaphore never exceeds
\* max_concurrent, and the semaphore holds exactly the unused permits, so a
\* fetch beyond the limit waits until a slot frees.
C2_InFlightBounded ==
    /\ InFlight <= max_concurrent
    /\ semaphore = max_concurrent - InFlight

C2_Witness ==
    /\ Len(tasks) > max_concurrent
    /\ InFlight = max_concurrent
    /\ \E k \in TaskIds : tasks[k].pc = "waiting"
    /\ \E k \in TaskIds : tasks[k].pc = "done"

-----------------------------------------------------------------------------
(* C3 *)

\* C3: when exactly one detail fetch has failed, the finished run's calendar
\* holds no event of the failing row and, of every other row, one event for
\* each screening that sits under a header date.
C3_FailureIsolated ==
    (pc = "done" /\ response = "ok" /\ TableFound(schedule)
        /\ Cardinality(FailedTasks) = 1) =>
        \A k \in 1..Len(movies) :
            TicketsOfRow(k) =
                IF TaskOf(movies[k]) \subseteq FailedTasks THEN <<>>
                ELSE DatedTickets(movies[k])

-----------------------------------------------------------------------------
(* C4 *)

\* C4: a run whose schedule page was fetched and whose table was found
\* returns a calendar.
C4_TableFoundReturnsCalendar ==
    (pc = "done" /\ response = "ok" /\ TableFound(schedule)) => returned # None

-----------------------------------------------------------------------------
(* C5 *)

-----------------------------------------------------------------------------
(* C6 *)

\* C6: every event of the returned calendar ends exactly duration minutes
\* after it starts, the duration being that of the details fetched for the
\* event's own row.
C6_EndIsStartPlusOwnDuration ==
    returned # None =>
        \A i \in 1..Len(returned.components) :
            LET e == returned.components[i]
            IN  \E t \in TaskOf(movies[e.description.tickets.row]) :
                    /\ tasks[t].result # EmptyDict
                    /\ ToMinutes(e.dtend) = ToMinutes(e.dtstart) + tasks[t].result.duration

-----------------------------------------------------------------------------
(* C7 *)

-----------------------------------------------------------------------------
(* C8 *)

\* C8: when the schedule page has no table, no detail fetch is issued, the
\* run returns None and nothing is ever saved.
C8_NoTableNoArtifact ==
    ~schedule.table =>
        /\ tasks = <<>>
        /\ pc \in {"scrape", "done"}
        /\ returned = None
        /\ saved = None

C8_Witness ==
    /\ ~schedule.table
    /\ pc = "done"
    /\ response = "ok"
    /\ cal # None
    /\ returned = None
    /\ saved = None

-----------------------------------------------------------------------------
(* C9 *)

\* C9 (as claimed): every details record a finished fetch produced carries a
\* positive duration, 120 when the duration node is absent or its text does
\* not match.
C9_DurationAlwaysSet ==
    \A t \in TaskIds :
        tasks[t].pc = "done" =>
            /\ "duration" \in DOMAIN tasks[t].result
            /\ tasks[t].result.duration > 0
            /\ (tasks[t].page # NoPage /\ ~(tasks[t].page.node /\ DurationMatch(tasks[t].page)))
                    => tasks[t].result.duration = 120

\* C9 (amended): every details record extracted from a fetched page carries
\* a duration that is a natural number, the number in front of "Min." when
\* the text matches (0 for "0 Min.") and 120 when the node is absent or the
\* text does not match; a failed fetch yields the empty record, which
\* carries no duration.
C9_DurationSetUnlessFailed ==
    \A t \in TaskIds :
        tasks[t].pc = "done" =>
            IF tasks[t].failed
            THEN tasks[t].result = EmptyDict
            ELSE /\ "duration" \in DOMAIN tasks[t].result
                 /\ tasks[t].result.duration \in Nat
                 /\ IF tasks[t].page.node /\ tasks[t].page.digits # <<>> /\ tasks[t].page.unit
                    THEN tasks[t].result.duration = DigitsToInt(tasks[t].page.digits)
                    ELSE tasks[t].result.duration = 120

C9_Witness ==
    \E t, u, v \in TaskIds :
        /\ tasks[t].pc = "done" /\ ~tasks[t].failed
        /\ tasks[t].page.node /\ ~tasks[t].page.unit
        /\ tasks[t].result.duration = 120
        /\ tasks[u].pc = "done" /\ ~tasks[u].failed
        /\ ~tasks[u].page.node
        /\ tasks[u].result.duration = 120
        /\ tasks[v].pc = "done" /\ ~tasks[v].failed
        /\ tasks[v].result.duration = 0

-----------------------------------------------------------------------------
(* C10 *)

\* C10: nothing is assembled or added to the calendar while a detail fetch
\* is unresolved, and a calendar is returned or saved only with every
\* assembled event added to it.
C10_StagesOrdered ==
    /\ (pc \in {"assemble", "aggregate", "save", "done"} /\ tasks # <<>>)
           => \A t \in TaskIds : tasks[t].pc = "done"
    /\ (events # <<>> \/ movie_details # <<>>)
           => \A t \in TaskIds : tasks[t].pc = "done"
    /\ (cal # None /\ cal.components # <<>>) => pc \in {"save", "done"}
    /\ returned # None => pc \in {"save", "done"} /\ returned.components = Flatten(events)
    /\ saved # None => pc = "done" /\ saved = returned

C10_Witness ==
    /\ pc = "done"
    /\ saved # None
    /\ Len(tasks) >= 2
    /\ Len(saved.components) >= 2
    /\ \E t \in TaskIds : tasks[t].failed
====
